---- MODULE Spec2Model ----
\* Model of kawaz/worker-timer: createWorkerTimer (main side) and _timerWorker
\* (worker side) of src/example/index.ts, lines 398-486, connected by the two
\* ordered message queues of a dedicated Worker.
EXTENDS Integers, Sequences, FiniteSets, TLC

\* ---------------------------------------------------------------- bounds
\* number of timers one instance may allocate in a run
MaxTimers == 2
\* number of messages user calls may leave queued towards the worker, and the
\* number of 'invoke' messages the worker may leave queued towards the main side
MaxChan == 2
\* number of setInterval timers user code starts in a run
MaxIntervals == 1

Ids == 0 .. (MaxTimers - 1)
\* ids user code may pass to clearTimeout/clearInterval: one more than is ever
\* allocated, so that a never-allocated id is among them
ClearIds == 0 .. MaxTimers

SetTypes == {"setTimeout", "setInterval"}
ClearTypes == {"clearTimeout", "clearInterval"}

\* What a user callback (TimerHandler) may do when it is called: nothing, throw,
\* call setTimeout itself, or call clearInterval(target) as the example usage
\* (lines 9-15) does.
Noop == [op |-> "noop", target |-> 0]
Throws == [op |-> "throw", target |-> 0]
Sets == [op |-> "set", target |-> 0]
Clears(j) == [op |-> "clear", target |-> j]
Funcs == {Noop, Throws, Sets, Clears(0)}

VARIABLES
    seq,         \* nextId's closure variable (line 411)
    idMap,       \* main side: TimerId -> TimerTransaction (line 408)
    toWorker,    \* messages posted by the main side, not yet handled by the worker
    toMain,      \* messages posted by the worker, not yet handled by the main side
    wIdMap,      \* worker side: TimerId -> native timer id (line 464)
    natives,     \* the worker's live native timers
    nativeSeq,   \* the worker's native timer id counter
    terminated,  \* worker.terminate() has been called
    defaultWorkerTimer,  \* the module's default instance, or Null (line 332)
    workers,     \* the number of workers constructed so far
    returned,    \* history: the <<id, type>> returned by each setTimer call, in order
    cleared,     \* history: allocated ids for which clearTimer has returned
    fired,       \* history: the ids whose native timer has fired
    invoked,     \* history: the ids whose callback has been called
    seen,        \* history: the ids the worker has received in a 'setTimeout'
                 \* or 'setInterval' message
    late,        \* history: the ids allocated after terminate
    ran,         \* the ids whose callback the latest step called
    called,      \* the calls of user callbacks the latest step made: func and args
    boot,        \* the createWorker call the latest step made, if any
    threw        \* the latest step ended with an uncaught exception

vars == <<seq, idMap, toWorker, toMain, wIdMap, natives, nativeSeq, terminated,
          defaultWorkerTimer, workers,
          returned, cleared, fired, invoked, seen, late, ran, called, boot, threw>>

\* ---------------------------------------------------------------- helpers
MapSet(m, k, v) == [j \in (DOMAIN m) \cup {k} |-> IF j = k THEN v ELSE m[j]]
MapDelete(m, k) == [j \in (DOMAIN m) \ {k} |-> m[j]]

\* ---------------------------------------------------------------- bootstrap
\* What the environment does to `new Worker(url)`: whether it throws for a
\* data: URL and whether it throws for a blob: URL.
Envs == [dataUrlThrows : BOOLEAN, blobThrows : BOOLEAN]

\* createWorkerWithDataUrl: new Worker(functionToDataUrl(f), options)
createWorkerWithDataUrl(env) ==
    IF env.dataUrlThrows
    THEN [threw |-> TRUE, worker |-> "none", error |-> "dataUrl"]
    ELSE [threw |-> FALSE, worker |-> "dataUrl", error |-> "none"]

\* createWorkerWithBlob: new Worker(functionToObjectUrl(f), options)
createWorkerWithBlob(env) ==
    IF env.blobThrows
    THEN [threw |-> TRUE, worker |-> "none", error |-> "blob"]
    ELSE [threw |-> FALSE, worker |-> "blob", error |-> "none"]

\* faulty createWorker: no fallback, the first strategy's error propagates
createWorker_noFallback(env) ==
    LET a == createWorkerWithDataUrl(env) IN
    [env |-> env, tried |-> <<"dataUrl">>,
     threw |-> a.threw, worker |-> a.worker, error |-> a.error]

\* createWorker, lines 59-65: try createWorkerWithDataUrl, and in the catch
\* createWorkerWithBlob. `tried` lists the strategies attempted, in order.
createWorker(env) ==
    LET a == createWorkerWithDataUrl(env)
        b == createWorkerWithBlob(env) IN
    IF ~a.threw
    THEN [env |-> env, tried |-> <<"dataUrl">>,
          threw |-> FALSE, worker |-> a.worker, error |-> "none"]
    ELSE [env |-> env, tried |-> <<"dataUrl", "blob">>,
          threw |-> b.threw, worker |-> b.worker, error |-> b.error]

\* ---------------------------------------------------------------- main side
\* The state of one WorkerTimer instance and of its worker.
Instance ==
    [seq |-> seq, idMap |-> idMap, toWorker |-> toWorker, toMain |-> toMain,
     wIdMap |-> wIdMap, natives |-> natives, nativeSeq |-> nativeSeq,
     terminated |-> terminated]

\* createWorkerTimer, lines 398-460: an empty idMap, a counter at 0 and a new
\* worker, whose own idMap is empty; an error of createWorker (line 415) is
\* not caught. `boot` is the createWorker call made.
createWorkerTimer(env) ==
    LET w == createWorker(env) IN
    [threw |-> w.threw,
     boot |-> <<w>>,
     inst |-> [seq |-> 0, idMap |-> << >>, toWorker |-> <<>>, toMain |-> <<>>,
               wIdMap |-> << >>, natives |-> {}, nativeSeq |-> 0,
               terminated |-> FALSE]]

\* the values of defaultWorkerTimer (line 332)
Null == "null"
WorkerTimer == "WorkerTimer"

\* faulty getWorkerTimer: a terminated default instance is replaced
getWorkerTimer_replacesTerminated(env) ==
    IF defaultWorkerTimer = Null \/ terminated
    THEN LET t == createWorkerTimer(env) IN
         IF t.threw
         THEN [threw |-> TRUE, timer |-> defaultWorkerTimer, workers |-> workers,
               inst |-> Instance, boot |-> t.boot]
         ELSE [threw |-> FALSE, timer |-> WorkerTimer, workers |-> workers + 1,
               inst |-> t.inst, boot |-> t.boot]
    ELSE [threw |-> FALSE, timer |-> defaultWorkerTimer, workers |-> workers,
          inst |-> Instance, boot |-> <<>>]

\* faulty getWorkerTimer: the instance it creates is not kept
getWorkerTimer_notKept(env) ==
    IF defaultWorkerTimer = Null
    THEN LET t == createWorkerTimer(env) IN
         IF t.threw
         THEN [threw |-> TRUE, timer |-> Null, workers |-> workers,
               inst |-> Instance, boot |-> t.boot]
         ELSE [threw |-> FALSE, timer |-> Null, workers |-> workers + 1,
               inst |-> t.inst, boot |-> t.boot]
    ELSE [threw |-> FALSE, timer |-> defaultWorkerTimer, workers |-> workers,
          inst |-> Instance, boot |-> <<>>]

\* getWorkerTimer, lines 338-343: creates the default instance when there is
\* none; when createWorkerTimer throws, the assignment is not reached.
\* `inst` is the state of the instance returned, `workers` the number of
\* workers constructed so far.
getWorkerTimer(env) ==
    IF defaultWorkerTimer = Null
    THEN LET t == createWorkerTimer(env) IN
         IF t.threw
         THEN [threw |-> TRUE, timer |-> Null, workers |-> workers,
               inst |-> Instance, boot |-> t.boot]
         ELSE [threw |-> FALSE, timer |-> WorkerTimer, workers |-> workers + 1,
               inst |-> t.inst, boot |-> t.boot]
    ELSE [threw |-> FALSE, timer |-> defaultWorkerTimer, workers |-> workers,
          inst |-> Instance, boot |-> <<>>]

\* The main-side state that setTimer / clearTimer / a callback touch.
MainOf(inst) ==
    [seq |-> inst.seq, idMap |-> inst.idMap, toWorker |-> inst.toWorker,
     terminated |-> inst.terminated,
     returned |-> returned, cleared |-> cleared, late |-> late]

Main == MainOf(Instance)

\* faulty nextId: returns seq without incrementing it
nextId_noIncrement(s) == [id |-> s, seq |-> s]

\* faulty nextId: increments before it reads (++seq)
nextId_preIncrement(s) == [id |-> s + 1, seq |-> s + 1]

\* const nextId = (() => { let seq = 0; return () => seq++ })()
nextId(s) == [id |-> s, seq |-> s + 1]

\* faulty postMessage: the message never reaches the worker
postMessage_lost(m, msg) == m.toWorker

\* worker.postMessage: queued for the worker; a terminated worker gets nothing
postMessage(m, msg) == IF m.terminated THEN m.toWorker ELSE Append(m.toWorker, msg)

\* faulty setTimer: posts the counter's next value instead of the id it returns
setTimer_postsNext(m, type, func, args) ==
    LET n == nextId(m.seq) IN
    [m EXCEPT !.seq = n.seq,
              !.idMap = MapSet(m.idMap, n.id,
                               [id |-> n.id, type |-> type, func |-> func, args |-> args]),
              !.toWorker = postMessage(m, [id |-> n.seq, type |-> type]),
              !.returned = Append(m.returned, <<n.id, type>>),
              !.late = IF m.terminated THEN m.late \cup {n.id} ELSE m.late]

\* setTimer(type, func, duration, ...args): lines 430-447. The Transaction keeps
\* the user's func and args; the wrapper invokeFunc that line 444 stores is
\* applied, by type, when the Transaction is invoked. duration is left out:
\* the native timer fires at some later time whatever the duration.
setTimer(m, type, func, args) ==
    LET n == nextId(m.seq) IN
    [m EXCEPT !.seq = n.seq,
              !.idMap = MapSet(m.idMap, n.id,
                               [id |-> n.id, type |-> type, func |-> func, args |-> args]),
              !.toWorker = postMessage(m, [id |-> n.id, type |-> type]),
              !.returned = Append(m.returned, <<n.id, type>>),
              !.late = IF m.terminated THEN m.late \cup {n.id} ELSE m.late]

\* faulty clearTimer: posts the Cancel and leaves the Transaction stored
clearTimer_noDelete(m, type, id) ==
    [m EXCEPT !.toWorker = postMessage(m, [id |-> id, type |-> type, noop |-> FALSE]),
              !.cleared = IF id < m.seq THEN m.cleared \cup {id} ELSE m.cleared]

\* faulty clearTimer: removes the Transaction for clearTimeout only
clearTimer_timeoutOnly(m, type, id) ==
    [m EXCEPT !.toWorker = postMessage(m, [id |-> id, type |-> type, noop |-> FALSE]),
              !.idMap = IF type = "clearTimeout" THEN MapDelete(m.idMap, id) ELSE m.idMap,
              !.cleared = IF id < m.seq THEN m.cleared \cup {id} ELSE m.cleared]

\* clearTimer(type, id): lines 449-452. The noop field is not part of the
\* message: it records that the call found no Transaction to remove, or that of
\* a setTimeout timer whose callback had run.
clearTimer(m, type, id) ==
    [m EXCEPT !.toWorker = postMessage(m,
                               [id |-> id, type |-> type,
                                noop |-> (id \notin DOMAIN m.idMap
                                          \/ (id \in invoked
                                              /\ m.idMap[id].type = "setTimeout"))]),
              !.idMap = MapDelete(m.idMap, id),
              !.cleared = IF id < m.seq THEN m.cleared \cup {id} ELSE m.cleared]

\* The args user code passes to the next setTimeout / setInterval call: one
\* value, different for every call, so that the args of two timers differ.
ArgsOf(m) == <<Len(m.returned)>>

\* func(...args): what the user's callback does to the main side; `called`
\* is the call made: the function and the arguments it got
call(m, func, args) ==
    LET c == <<[func |-> func, args |-> args]>> IN
    CASE func.op = "noop" -> [m |-> m, threw |-> FALSE, called |-> c]
      [] func.op = "throw" -> [m |-> m, threw |-> TRUE, called |-> c]
      [] func.op = "set" -> [m |-> setTimer(m, "setTimeout", Noop, ArgsOf(m)),
                             threw |-> FALSE, called |-> c]
      [] func.op = "clear" -> [m |-> clearTimer(m, "clearInterval", func.target),
                               threw |-> FALSE, called |-> c]

\* faulty invokeFunc: the user's func is called without the arguments
invokeFunc_dropsArgs(m, t, args) ==
    LET r == call(m, t.func, <<>>) IN
    IF t.type = "setTimeout"
    THEN IF r.threw THEN r
         ELSE [r EXCEPT !.m = [r.m EXCEPT !.idMap = MapDelete(r.m.idMap, t.id)]]
    ELSE r

\* invokeFunc of setTimer, lines 437-443, called with args: for setTimeout the
\* user's func(...args) and then idMap.delete(id), which a throwing func never
\* reaches; else func itself
invokeFunc(m, t, args) ==
    LET r == call(m, t.func, args) IN
    IF t.type = "setTimeout"
    THEN IF r.threw THEN r
         ELSE [r EXCEPT !.m = [r.m EXCEPT !.idMap = MapDelete(r.m.idMap, t.id)]]
    ELSE r

\* faulty listener: no check for a missing Transaction, so that reading
\* transaction.func throws, and any other type is taken for 'clear'
listener_noNullCheck(m, msg) ==
    IF msg.id \notin DOMAIN m.idMap
    THEN [m |-> m, threw |-> TRUE, ran |-> {}, called |-> <<>>]
    ELSE IF msg.type = "invoke"
         THEN LET t == m.idMap[msg.id]
                  r == invokeFunc(m, t, t.args) IN
              [m |-> r.m, threw |-> r.threw, ran |-> {msg.id}, called |-> r.called]
         ELSE [m |-> [m EXCEPT !.idMap = MapDelete(m.idMap, msg.id)],
               threw |-> FALSE, ran |-> {}, called |-> <<>>]

\* the 'message' listener of createWorkerTimer, lines 417-428: 'invoke' calls
\* transaction.func(...transaction.args)
listener(m, msg) ==
    IF msg.id \notin DOMAIN m.idMap
    THEN [m |-> m, threw |-> FALSE, ran |-> {}, called |-> <<>>]
    ELSE IF msg.type = "invoke"
         THEN LET t == m.idMap[msg.id]
                  r == invokeFunc(m, t, t.args) IN
              [m |-> r.m, threw |-> r.threw, ran |-> {msg.id}, called |-> r.called]
         ELSE IF msg.type = "clear"
              THEN [m |-> [m EXCEPT !.idMap = MapDelete(m.idMap, msg.id)],
                    threw |-> FALSE, ran |-> {}, called |-> <<>>]
              ELSE [m |-> m, threw |-> FALSE, ran |-> {}, called |-> <<>>]

SetMain(m) ==
    /\ seq' = m.seq
    /\ idMap' = m.idMap
    /\ toWorker' = m.toWorker
    /\ returned' = m.returned
    /\ cleared' = m.cleared
    /\ late' = m.late

\* the worker's part of the instance a bare call went to
SetWorker(inst) ==
    /\ toMain' = inst.toMain
    /\ wIdMap' = inst.wIdMap
    /\ natives' = inst.natives
    /\ nativeSeq' = inst.nativeSeq
    /\ terminated' = inst.terminated

\* what getWorkerTimer has done to the module's state
SetDefault(g) ==
    /\ defaultWorkerTimer' = g.timer
    /\ workers' = g.workers
    /\ boot' = g.boot

\* a step of the event loops: no bare call, so no getWorkerTimer
NoDefault ==
    /\ boot' = <<>>
    /\ UNCHANGED <<defaultWorkerTimer, workers>>

\* the environments a bare call may meet: which one only matters to the call
\* that has to create the worker
EnvsNow ==
    IF defaultWorkerTimer = Null
    THEN Envs
    ELSE {[dataUrlThrows |-> FALSE, blobThrows |-> FALSE]}

\* a bare call whose getWorkerTimer() threw: nothing else has happened
Failed ==
    /\ threw' = TRUE
    /\ UNCHANGED <<seq, idMap, toWorker, toMain, wIdMap, natives, nativeSeq,
                   terminated, returned, cleared, late>>

\* ids a stored setTimeout callback will still allocate when it runs
Reserved == Cardinality({i \in DOMAIN idMap : idMap[i].func.op = "set"})

\* the setInterval timers started so far
Intervals == {k \in 1 .. Len(returned) : returned[k][2] = "setInterval"}

\* the clear function that matches the timer an id was returned for
clearTypeFor(id) ==
    IF \E k \in Intervals : returned[k][1] = id THEN "clearInterval" ELSE "clearTimeout"

\* user code calls the bare setTimeout / setInterval, lines 352-361:
\* getWorkerTimer().setTimeout(...args); the callbacks that throw or schedule
\* are given to setTimeout only
SetTimer(type, func) ==
    /\ seq + Reserved + (IF func.op = "set" THEN 2 ELSE 1) <= MaxTimers
    /\ func.op \in {"set", "throw"} => type = "setTimeout"
    /\ type = "setInterval" => Cardinality(Intervals) < MaxIntervals
    /\ Len(toWorker) < MaxChan
    /\ \E env \in EnvsNow :
          LET g == getWorkerTimer(env) IN
          /\ SetDefault(g)
          /\ IF g.threw
             THEN Failed
             ELSE LET m == MainOf(g.inst) IN
                  /\ SetMain(setTimer(m, type, func, ArgsOf(m)))
                  /\ SetWorker(g.inst)
                  /\ threw' = FALSE
    /\ ran' = {}
    /\ called' = <<>>
    /\ UNCHANGED <<fired, invoked, seen>>

\* a Cancel for id is queued for the worker
CancelQueued(id) ==
    \E k \in 1 .. Len(toWorker) : toWorker[k].id = id /\ toWorker[k].type \in ClearTypes

\* user code calls the bare clearTimeout / clearInterval, lines 367-376, on an
\* id it was given or on one no timer has (yet); it does not repeat the call
\* while the Cancel of an earlier call for the same id is still queued
ClearTimer(type, id) ==
    /\ Len(toWorker) < MaxChan
    /\ id <= seq
    /\ type = clearTypeFor(id)
    /\ ~CancelQueued(id)
    /\ \E env \in EnvsNow :
          LET g == getWorkerTimer(env) IN
          /\ SetDefault(g)
          /\ IF g.threw
             THEN Failed
             ELSE /\ SetMain(clearTimer(MainOf(g.inst), type, id))
                  /\ SetWorker(g.inst)
                  /\ threw' = FALSE
    /\ ran' = {}
    /\ called' = <<>>
    /\ UNCHANGED <<fired, invoked, seen>>

\* the main side's event loop delivers the next message of the worker
MainReceive ==
    /\ toMain # <<>>
    /\ LET msg == Head(toMain)
           r == listener(Main, msg) IN
       /\ Len(r.m.toWorker) <= MaxChan + 1
       /\ SetMain(r.m)
       /\ ran' = r.ran
       /\ called' = r.called
       /\ threw' = r.threw
       /\ invoked' = invoked \cup r.ran
    /\ toMain' = Tail(toMain)
    /\ NoDefault
    /\ UNCHANGED <<wIdMap, natives, nativeSeq, terminated, fired, seen>>

\* faulty terminate: what the worker had posted is still delivered
terminate_keepsPosted ==
    [toWorker |-> <<>>, toMain |-> toMain, natives |-> {}, wIdMap |-> << >>]

\* terminate: () => worker.terminate(), line 458. The worker stops at once:
\* its timers die, the messages queued for it are discarded and so are the
\* messages it had posted that the main side has not handled yet.
terminate ==
    [toWorker |-> <<>>, toMain |-> <<>>, natives |-> {}, wIdMap |-> << >>]

\* user code calls the bare terminate, line 382: getWorkerTimer().terminate();
\* it does so once
Terminate ==
    /\ ~terminated
    /\ \E env \in EnvsNow :
          LET g == getWorkerTimer(env) IN
          /\ SetDefault(g)
          /\ IF g.threw
             THEN Failed
             ELSE LET t == terminate IN
                  /\ terminated' = TRUE
                  /\ toWorker' = t.toWorker
                  /\ toMain' = t.toMain
                  /\ natives' = t.natives
                  /\ wIdMap' = t.wIdMap
                  /\ seq' = g.inst.seq
                  /\ idMap' = g.inst.idMap
                  /\ nativeSeq' = g.inst.nativeSeq
                  /\ threw' = FALSE
                  /\ UNCHANGED <<returned, cleared, late>>
    /\ ran' = {}
    /\ called' = <<>>
    /\ UNCHANGED <<fired, invoked, seen>>

\* ---------------------------------------------------------------- worker side
\* self.setTimeout / self.setInterval: a new live native timer
nativeSet(ns, h, id, type) == ns \cup {[h |-> h, id |-> id, type |-> type]}

\* self.clearTimeout / self.clearInterval; hs is the handle passed, as a set:
\* empty when idMap.get(id) is undefined. Either function clears either kind.
nativeClear(ns, hs) == {n \in ns : n.h \notin hs}

\* faulty worker listener: starts a native interval for either type
workerListener_alwaysInterval(w, msg) ==
    LET w1 == IF msg.type \in SetTypes
              THEN [w EXCEPT !.natives = nativeSet(w.natives, w.nativeSeq, msg.id, "setInterval"),
                             !.wIdMap = MapSet(w.wIdMap, msg.id, w.nativeSeq),
                             !.nativeSeq = w.nativeSeq + 1]
              ELSE w
    IN  IF msg.type \in ClearTypes
        THEN [w1 EXCEPT !.natives = nativeClear(w1.natives,
                                       IF msg.id \in DOMAIN w1.wIdMap
                                       THEN {w1.wIdMap[msg.id]} ELSE {}),
                        !.wIdMap = MapDelete(w1.wIdMap, msg.id)]
        ELSE w1

\* the worker's 'message' listener: lines 465-485
workerListener(w, msg) ==
    LET w1 == IF msg.type \in SetTypes
              THEN [w EXCEPT !.natives = nativeSet(w.natives, w.nativeSeq, msg.id, msg.type),
                             !.wIdMap = MapSet(w.wIdMap, msg.id, w.nativeSeq),
                             !.nativeSeq = w.nativeSeq + 1]
              ELSE w
    IN  IF msg.type \in ClearTypes
        THEN [w1 EXCEPT !.natives = nativeClear(w1.natives,
                                       IF msg.id \in DOMAIN w1.wIdMap
                                       THEN {w1.wIdMap[msg.id]} ELSE {}),
                        !.wIdMap = MapDelete(w1.wIdMap, msg.id)]
        ELSE w1

Worker == [wIdMap |-> wIdMap, natives |-> natives, nativeSeq |-> nativeSeq]

WorkerReceive ==
    /\ ~terminated
    /\ toWorker # <<>>
    /\ LET w == workerListener(Worker, Head(toWorker)) IN
       /\ wIdMap' = w.wIdMap
       /\ natives' = w.natives
       /\ nativeSeq' = w.nativeSeq
    /\ toWorker' = Tail(toWorker)
    /\ seen' = IF Head(toWorker).type \in SetTypes
               THEN seen \cup {Head(toWorker).id} ELSE seen
    /\ ran' = {}
    /\ called' = <<>>
    /\ threw' = FALSE
    /\ NoDefault
    /\ UNCHANGED <<seq, idMap, toMain, terminated, returned, cleared, fired, invoked, late>>

\* faulty callback: a fired setTimeout keeps its registry entry
nativeCallback_keepsHandle(w, q, n) ==
    [w |-> w, toMain |-> Append(q, [id |-> n.id, type |-> "invoke"])]

\* faulty callback: every firing removes the entry and stops the native timer
nativeCallback_alwaysDeletes(w, q, n) ==
    [w |-> [w EXCEPT !.wIdMap = MapDelete(w.wIdMap, n.id),
                     !.natives = w.natives \ {n}],
     toMain |-> Append(q, [id |-> n.id, type |-> "invoke"])]

\* faulty callback: every firing removes the registry entry, and a repeating
\* native timer goes on
nativeCallback_deletesEntry(w, q, n) ==
    [w |-> [w EXCEPT !.wIdMap = MapDelete(w.wIdMap, n.id)],
     toMain |-> Append(q, [id |-> n.id, type |-> "invoke"])]

\* faulty callback: one firing posts 'invoke' twice
nativeCallback_postsTwice(w, q, n) ==
    LET q1 == Append(Append(q, [id |-> n.id, type |-> "invoke"]),
                     [id |-> n.id, type |-> "invoke"]) IN
    IF n.type = "setTimeout"
    THEN [w |-> [w EXCEPT !.wIdMap = MapDelete(w.wIdMap, n.id)], toMain |-> q1]
    ELSE [w |-> w, toMain |-> q1]

\* the callback the worker hands to the native timer: lines 469-476
nativeCallback(w, q, n) ==
    LET q1 == Append(q, [id |-> n.id, type |-> "invoke"]) IN
    IF n.type = "setTimeout"
    THEN [w |-> [w EXCEPT !.wIdMap = MapDelete(w.wIdMap, n.id)], toMain |-> q1]
    ELSE [w |-> w, toMain |-> q1]

\* the native timers left once n has fired: a setTimeout timer fires once
nativeFired(ns, n) == IF n.type = "setTimeout" THEN ns \ {n} ELSE ns

\* a live native timer fires
NativeFire(n) ==
    /\ ~terminated
    /\ n \in natives
    /\ Len(toMain) < MaxChan
    /\ LET r == nativeCallback(Worker, toMain, n) IN
       /\ wIdMap' = r.w.wIdMap
       /\ toMain' = r.toMain
       /\ natives' = nativeFired(r.w.natives, n)
    /\ fired' = fired \cup {n.id}
    /\ ran' = {}
    /\ called' = <<>>
    /\ threw' = FALSE
    /\ NoDefault
    /\ UNCHANGED <<seq, idMap, toWorker, nativeSeq, terminated, returned, cleared, invoked,
                   seen, late>>

\* ---------------------------------------------------------------- specification
Init ==
    /\ seq = 0
    /\ idMap = << >>
    /\ toWorker = <<>>
    /\ toMain = <<>>
    /\ wIdMap = << >>
    /\ natives = {}
    /\ nativeSeq = 0
    /\ terminated = FALSE
    /\ defaultWorkerTimer = Null
    /\ workers = 0
    /\ returned = <<>>
    /\ cleared = {}
    /\ fired = {}
    /\ invoked = {}
    /\ seen = {}
    /\ late = {}
    /\ ran = {}
    /\ called = <<>>
    /\ boot = <<>>
    /\ threw = FALSE

Next ==
    \/ \E type \in SetTypes, func \in Funcs : SetTimer(type, func)
    \/ \E type \in ClearTypes, id \in ClearIds : ClearTimer(type, id)
    \/ MainReceive
    \/ Terminate
    \/ WorkerReceive
    \/ \E n \in natives : NativeFire(n)

Spec == Init /\ [][Next]_vars

\* Scheduling: each event loop handles a queued message in the end, and a live
\* native timer fires in the end (its duration is finite).
NativeFireOf(i) == \E n \in natives : n.id = i /\ NativeFire(n)

Fairness ==
    /\ WF_vars(WorkerReceive)
    /\ WF_vars(MainReceive)
    /\ \A i \in Ids : SF_vars(NativeFireOf(i))

LiveSpec == Init /\ [][Next]_vars /\ Fairness

\* The vocabulary's ClearMessage (type 'clear'), which _timerWorker never posts:
\* a worker that cancels a timer of its own accord and tells the main side.
WorkerClears(id) ==
    /\ ~terminated
    /\ id \in DOMAIN wIdMap
    /\ Len(toMain) < MaxChan
    /\ toMain' = Append(toMain, [id |-> id, type |-> "clear"])
    /\ natives' = nativeClear(natives, {wIdMap[id]})
    /\ wIdMap' = MapDelete(wIdMap, id)
    /\ ran' = {}
    /\ called' = <<>>
    /\ threw' = FALSE
    /\ NoDefault
    /\ UNCHANGED <<seq, idMap, toWorker, nativeSeq, terminated, returned, cleared,
                   fired, invoked, seen, late>>

OpenNext ==
    \/ Next
    \/ \E id \in Ids : WorkerClears(id)

SpecOpenWorker == Init /\ [][OpenNext]_vars

\* The createWorkerTimer variant of lines 152-205. Its setTimer stores the
\* user's func itself (line 189) and its listener (lines 171-185) calls
\* transaction.func(...transaction.args) on 'invoke' and removes nothing.
listenerOlder(m, msg) ==
    IF msg.id \notin DOMAIN m.idMap
    THEN [m |-> m, threw |-> FALSE, ran |-> {}, called |-> <<>>]
    ELSE IF msg.type = "invoke"
         THEN LET t == m.idMap[msg.id]
                  r == call(m, t.func, t.args) IN
              [m |-> r.m, threw |-> r.threw, ran |-> {msg.id}, called |-> r.called]
         ELSE IF msg.type = "clear"
              THEN [m |-> [m EXCEPT !.idMap = MapDelete(m.idMap, msg.id)],
                    threw |-> FALSE, ran |-> {}, called |-> <<>>]
              ELSE [m |-> m, threw |-> FALSE, ran |-> {}, called |-> <<>>]

\* the main side's event loop delivers the next message of the worker to the
\* listener of that variant
MainReceiveOlder ==
    /\ toMain # <<>>
    /\ LET msg == Head(toMain)
           r == listenerOlder(Main, msg) IN
       /\ Len(r.m.toWorker) <= MaxChan + 1
       /\ SetMain(r.m)
       /\ ran' = r.ran
       /\ called' = r.called
       /\ threw' = r.threw
       /\ invoked' = invoked \cup r.ran
    /\ toMain' = Tail(toMain)
    /\ NoDefault
    /\ UNCHANGED <<wIdMap, natives, nativeSeq, terminated, fired, seen>>

\* that variant's setTimer, clearTimer, terminate and worker (lines 187-226)
\* are those of lines 430-486
NextOlder ==
    \/ \E type \in SetTypes, func \in Funcs : SetTimer(type, func)
    \/ \E type \in ClearTypes, id \in ClearIds : ClearTimer(type, id)
    \/ MainReceiveOlder
    \/ Terminate
    \/ WorkerReceive
    \/ \E n \in natives : NativeFire(n)

SpecOlder == Init /\ [][NextOlder]_vars

TypeOK ==
    /\ seq \in 0 .. MaxTimers
    /\ DOMAIN idMap \subseteq Ids
    /\ DOMAIN wIdMap \subseteq Ids
    /\ terminated \in BOOLEAN
    /\ threw \in BOOLEAN
    /\ ran \subseteq Ids

\* ---------------------------------------------------------------- properties
ReturnedIds == {returned[k][1] : k \in 1 .. Len(returned)}
IsTimeout(i) == \E k \in 1 .. Len(returned) : returned[k] = <<i, "setTimeout">>
IsInterval(i) == \E k \in 1 .. Len(returned) : returned[k] = <<i, "setInterval">>
InFlight(i) == {k \in 1 .. Len(toMain) : toMain[k] = [id |-> i, type |-> "invoke"]}
Live(i) == \E n \in natives : n.id = i

\* C1: the ids returned by setTimeout and setInterval are pairwise distinct,
\* also after the timer that held an id has fired or been cleared.
C1_IdsUnique ==
    \A j, k \in 1 .. Len(returned) : j # k => returned[j][1] # returned[k][1]

C1_Witness ==
    /\ Len(returned) >= 2
    /\ \E k \in 1 .. (Len(returned) - 1) :
          /\ returned[k][1] \in cleared \cup invoked
          /\ returned[k][1] \notin DOMAIN idMap

\* C2: once clearTimeout(id) has returned for a one-shot timer whose callback
\* has not been invoked, no step invokes that callback, whatever is in flight.
C2_ClearedTimeoutNeverRuns ==
    [][\A i \in cleared \ invoked : IsTimeout(i) => (i \notin ran' /\ i \notin invoked')]_vars

\* the clear was called while the worker's 'invoke' was in flight, and another
\* timer was cleared right after it was set
C2_Witness ==
    \E i \in cleared \ invoked :
        /\ IsTimeout(i)
        /\ InFlight(i) # {}
        /\ \E j \in cleared \ {i} :
              /\ Len(toWorker) = 2
              /\ toWorker[1].id = j /\ toWorker[1].type \in SetTypes
              /\ toWorker[2].id = j /\ toWorker[2].type \in ClearTypes

\* C3: once clearInterval(id) has returned for a repeating timer, no step
\* invokes its callback, however many 'invoke' messages are in flight and
\* however often the native interval still fires.
C3_ClearedIntervalNeverRuns ==
    [][\A i \in cleared : IsInterval(i) => i \notin ran']_vars

\* cleared, several 'invoke' messages in flight, the native interval still live
C3_Witness ==
    \E i \in cleared :
        /\ IsInterval(i)
        /\ Cardinality(InFlight(i)) >= 2
        /\ Live(i)
        /\ i \in invoked

\* C4: after terminate() no callback of the instance is invoked.
C4_NoInvokeAfterTerminate ==
    [][terminated => (ran' = {} /\ invoked' = invoked)]_vars

\* terminated with a stored timer whose native timer had fired and whose
\* 'invoke' was never handled, and with a stored timer that never fired
C4_Witness ==
    /\ terminated
    /\ \E i \in (DOMAIN idMap) \cap (fired \ invoked) : TRUE
    /\ \E j \in (DOMAIN idMap) \ fired : TRUE

\* C5: the callback of a one-shot timer is invoked at most once.
C5_TimeoutAtMostOnce ==
    [][\A i \in invoked : IsTimeout(i) => i \notin ran']_vars

\* a one-shot callback has run and thrown, so that its Transaction is still stored
C5_Witness ==
    \E i \in invoked \cap DOMAIN idMap : IsTimeout(i) /\ ~terminated

\* C6: a one-shot timer that is never cleared, on an instance that is never
\* terminated, has its callback invoked in the end.
C6_TimeoutEventuallyRuns ==
    \A i \in Ids : IsTimeout(i) ~> (i \in invoked \/ i \in cleared \/ terminated)

C6_Witness ==
    \E i \in invoked : IsTimeout(i) /\ i \notin cleared /\ ~terminated /\ i \notin DOMAIN idMap

\* C7: a repeating timer that is never cleared, on an instance that is never
\* terminated, has its callback invoked again and again, and the worker keeps
\* its handle and its live native interval until it handles a Cancel for the id
\* or is terminated.
C7_IntervalKeepsFiring ==
    /\ \A i \in Ids : IsInterval(i) ~> (i \in ran \/ i \in cleared \/ terminated)
    /\ [][\A i \in DOMAIN wIdMap :
            (IsInterval(i) /\ ~(i \in DOMAIN wIdMap' /\ Live(i)'))
            => \/ terminated'
               \/ /\ toWorker # <<>>
                  /\ Head(toWorker).id = i
                  /\ Head(toWorker).type \in ClearTypes
                  /\ toWorker' = Tail(toWorker)]_vars

\* the callback has just run and the next 'invoke' of the live interval is queued
C7_Witness ==
    \E i \in ran :
        /\ IsInterval(i)
        /\ InFlight(i) # {}
        /\ i \in DOMAIN wIdMap
        /\ i \notin cleared

\* C8: handling 'invoke' for a stored Transaction leaves a setInterval
\* Transaction stored (unless its own callback cleared it) and removes a
\* setTimeout Transaction, whatever the callback does.
C8_FiredRemovesOnlyOneShot ==
    [][(/\ toMain # <<>>
        /\ MainReceive
        /\ Head(toMain).type = "invoke"
        /\ Head(toMain).id \in DOMAIN idMap)
       => LET i == Head(toMain).id IN
          /\ idMap[i].type = "setInterval" => (i \in DOMAIN idMap' \/ i \in cleared')
          /\ idMap[i].type = "setTimeout" => i \notin DOMAIN idMap']_vars

\* a clearTimer call that the claim calls a no-op
NoopClear(id) ==
    \/ id \notin DOMAIN idMap
    \/ (id \in invoked /\ idMap[id].type = "setTimeout")

\* C9: clearTimeout/clearInterval on an id with no Transaction, or whose one-shot
\* callback has run, raises nothing, invokes nothing and leaves every other
\* Transaction as it is; the worker, handling the resulting Cancel, finds no
\* handle, clears no native timer and leaves its registry as it is.
C9_ClearUnknownIsNoop ==
    [][/\ \A id \in ClearIds :
            (/\ id <= seq
             /\ ~terminated => (/\ Len(toWorker') = Len(toWorker) + 1
                                 /\ toWorker'[Len(toWorker')].id = id)
             /\ NoopClear(id)
             /\ ClearTimer(clearTypeFor(id), id))
            => /\ ~threw'
               /\ ran' = {}
               /\ invoked' = invoked
               /\ \A j \in (DOMAIN idMap) \ {id} : j \in DOMAIN idMap' /\ idMap'[j] = idMap[j]
               /\ id \notin DOMAIN idMap'
               /\ id \notin DOMAIN idMap => idMap' = idMap
       /\ (/\ toWorker # <<>>
           /\ Head(toWorker).type \in ClearTypes
           /\ Head(toWorker).noop
           /\ WorkerReceive)
          => /\ Head(toWorker).id \notin DOMAIN wIdMap
             /\ wIdMap' = wIdMap
             /\ natives' = natives]_vars

\* the worker is about to handle the Cancel of a clear that came after the
\* one-shot callback had run, with another timer stored and live
C9_Witness ==
    /\ toWorker # <<>>
    /\ Head(toWorker).type \in ClearTypes
    /\ Head(toWorker).noop
    /\ Head(toWorker).id \in invoked
    /\ natives # {}
    /\ DOMAIN idMap # {}

\* C10: a message of the worker whose id has no Transaction is dropped: no
\* callback runs, the registry and the allocator are unchanged, nothing is
\* posted and nothing is thrown.
C10_UnknownIdDropped ==
    [][(/\ toMain # <<>>
        /\ MainReceive
        /\ Head(toMain).id \notin DOMAIN idMap)
       => /\ ~threw'
          /\ ran' = {}
          /\ invoked' = invoked
          /\ idMap' = idMap
          /\ seq' = seq
          /\ toWorker' = toWorker]_vars

\* an 'invoke' and a 'clear' for ids without Transaction have been handled:
\* the one-shot timer fired, was cleared, never ran, and nothing is queued
C10_Witness ==
    /\ ~terminated
    /\ toMain = <<>>
    /\ \E i \in (fired \cap cleared) \ invoked : IsTimeout(i)
    /\ \E j \in ReturnedIds : j \notin DOMAIN idMap /\ j \notin fired /\ j \notin DOMAIN wIdMap
                              /\ j \in cleared /\ toWorker # <<>> /\ Head(toWorker).id = j
                              /\ Head(toWorker).type \in ClearTypes /\ ~Head(toWorker).noop
\* C11 as stated: every 'setTimeout'/'setInterval'/'clearTimeout'/'clearInterval'
\* message the main side has posted carries an id its allocator has returned,
\* and every 'invoke' message the worker has posted carries an id the worker
\* has received in a 'setTimeout'/'setInterval' message.
C11_OnlyOwnIds ==
    /\ \A k \in 1 .. Len(toWorker) : toWorker[k].id \in ReturnedIds
    /\ \A k \in 1 .. Len(toMain) : toMain[k].id \in seen

\* C11 amended: the messages that schedule a timer carry an id the allocator
\* has returned and the 'invoke' messages carry an id the worker has received
\* in a scheduling message; a 'clearTimeout'/'clearInterval' message carries
\* whatever id the caller passed, allocated or not.
C11_ScheduleAndInvokeOwnIds ==
    /\ \A k \in 1 .. Len(toWorker) :
          toWorker[k].type \in SetTypes => toWorker[k].id \in ReturnedIds
    /\ \A k \in 1 .. Len(toMain) : toMain[k].id \in seen

\* C11 witness: a scheduling message, a clear message for an id that was never
\* allocated and an 'invoke' message are all in flight
C11_Witness ==
    /\ \E k \in 1 .. Len(toWorker) : toWorker[k].type \in SetTypes
    /\ \E k \in 1 .. Len(toWorker) :
          toWorker[k].type \in ClearTypes /\ toWorker[k].id \notin ReturnedIds
    /\ toMain # <<>>

\* C12: the n-th call to setTimeout/setInterval on an instance returns n - 1:
\* the ids are 0, 1, 2, ... in call order, without gaps, whatever the kinds of
\* the calls and whatever was cleared, fired or invoked in between.
C12_IdsSequential ==
    /\ \A k \in 1 .. Len(returned) : returned[k][1] = k - 1
    /\ seq = Len(returned)

\* C12 witness: two calls of different kinds have returned, the first timer
\* was cleared or has run in between, and a clear call was made with an id
\* that had no Transaction at the time
C12_Witness ==
    /\ Len(returned) >= 2
    /\ returned[1][2] # returned[2][2]
    /\ returned[1][1] \in cleared \cup invoked
    /\ \E k \in 1 .. Len(toWorker) : toWorker[k].type \in ClearTypes /\ toWorker[k].noop

\* C13: for every id with a Transaction on the main side the worker holds at
\* most one live native timer, and every live native timer is recorded in the
\* worker's registry, under exactly one id: its own.
C13_OneNativePerId ==
    /\ \A i \in DOMAIN idMap : Cardinality({n \in natives : n.id = i}) <= 1
    /\ \A n \in natives : {i \in DOMAIN wIdMap : wIdMap[i] = n.h} = {n.id}

\* C13 witness: two timers are live in the worker, both with a Transaction,
\* after an interval has fired
C13_Witness ==
    /\ Cardinality(natives) >= 2
    /\ \A n \in natives : n.id \in DOMAIN idMap
    /\ \E n \in natives : n.type = "setInterval" /\ n.id \in fired

\* a bare call: setTimeout, setInterval, clearTimeout, clearInterval or
\* terminate of the module, on the default instance
BareCall ==
    \/ \E type \in SetTypes, func \in Funcs : SetTimer(type, func)
    \/ \E type \in ClearTypes, id \in ClearIds : ClearTimer(type, id)
    \/ Terminate

\* C14 as stated: no default instance (and no worker) exists before the first
\* bare call, the first bare call creates it, and no later step creates
\* another.
C14_FirstCallCreates ==
    /\ [](defaultWorkerTimer = Null <=> workers = 0)
    /\ [](workers <= 1)
    /\ [][/\ BareCall => defaultWorkerTimer' = WorkerTimer
          /\ defaultWorkerTimer = WorkerTimer => /\ defaultWorkerTimer' = WorkerTimer
                                                 /\ workers' = workers]_vars

\* C14 amended: no default instance (and no worker) exists before the first
\* bare call; a bare call made while there is none creates it unless the
\* worker bootstrap throws, in which case the call throws and there is still
\* none; once it exists every step, bare calls included, keeps that instance
\* and constructs no other worker.
C14_LazySingleton ==
    /\ [](defaultWorkerTimer = Null <=> workers = 0)
    /\ [](workers <= 1)
    /\ [][/\ BareCall => \/ defaultWorkerTimer' = WorkerTimer /\ ~threw'
                         \/ /\ defaultWorkerTimer = Null
                            /\ defaultWorkerTimer' = Null
                            /\ threw'
                            /\ boot' # <<>>
                            /\ boot'[1].threw
          /\ ~BareCall => /\ defaultWorkerTimer' = defaultWorkerTimer
                          /\ workers' = workers
          /\ defaultWorkerTimer = WorkerTimer => /\ defaultWorkerTimer' = WorkerTimer
                                                 /\ workers' = workers]_vars

\* C14 witness: a second bare call has been served by the default instance
\* that the first one created
C14_Witness ==
    /\ defaultWorkerTimer = WorkerTimer
    /\ workers = 1
    /\ boot = <<>>
    /\ Len(returned) >= 2
    /\ cleared # {}

\* C15: the bootstrap tries the data-URL strategy first and the blob strategy
\* only when the first throws. When the first succeeds the second is never
\* attempted and the first's worker is used; when the first throws and the
\* second succeeds the second's worker is used and the caller sees no error;
\* when both throw, the second's error reaches the caller of createWorkerTimer
\* and, through getWorkerTimer, the bare call, and no instance is stored.
C15_BootstrapFallback ==
    \A k \in 1 .. Len(boot) :
       LET b == boot[k] IN
       /\ b.tried[1] = "dataUrl"
       /\ ~b.env.dataUrlThrows =>
             /\ b.tried = <<"dataUrl">>
             /\ b.worker = "dataUrl"
             /\ ~b.threw /\ ~threw
             /\ defaultWorkerTimer = WorkerTimer
       /\ (b.env.dataUrlThrows /\ ~b.env.blobThrows) =>
             /\ b.tried = <<"dataUrl", "blob">>
             /\ b.worker = "blob"
             /\ ~b.threw /\ ~threw
             /\ defaultWorkerTimer = WorkerTimer
       /\ (b.env.dataUrlThrows /\ b.env.blobThrows) =>
             /\ b.tried = <<"dataUrl", "blob">>
             /\ b.worker = "none"
             /\ b.threw /\ b.error = "blob" /\ threw
             /\ defaultWorkerTimer = Null

\* C15 witness: the latest step bootstrapped the worker with the blob
\* strategy after the data-URL strategy had thrown, and the call went through
C15_Witness ==
    /\ boot # <<>>
    /\ boot[1].env.dataUrlThrows
    /\ boot[1].worker = "blob"
    /\ Len(returned) = 1

\* the worker handles a message of one of the given types for id i
WorkerHandles(i, types) ==
    /\ toWorker # <<>>
    /\ Head(toWorker).id = i
    /\ Head(toWorker).type \in types
    /\ toWorker' = Tail(toWorker)

\* the native timer of id i, of the given type, fires
NativeFires(i, type) ==
    /\ \E n \in natives : n.id = i /\ n.type = type
    /\ toMain' = Append(toMain, [id |-> i, type |-> "invoke"])

\* C16: while the worker runs, its registry entry for an id is created only
\* by handling a scheduling message for that id, and never for an id that had
\* an entry before; it is removed only by the firing of the id's one-shot
\* native timer or by handling a clear message for the id; the firing of a
\* repeating native timer leaves the entry in place.
C16_WorkerEntryLifecycle ==
    [][~terminated' =>
         \A i \in Ids :
            /\ (i \notin DOMAIN wIdMap /\ i \in DOMAIN wIdMap') =>
                  /\ WorkerHandles(i, SetTypes)
                  /\ i \notin seen
            /\ (i \in DOMAIN wIdMap /\ i \notin DOMAIN wIdMap') =>
                  \/ WorkerHandles(i, ClearTypes)
                  \/ NativeFires(i, "setTimeout")
            /\ (i \in DOMAIN wIdMap /\ NativeFires(i, "setInterval")) =>
                  /\ i \in DOMAIN wIdMap'
                  /\ wIdMap'[i] = wIdMap[i]
            /\ i \in DOMAIN wIdMap' => i \in seen']_vars

\* C16 witness: the worker runs; the entry of a one-shot id is gone after its
\* timer fired, and a repeating timer has fired and still has its entry
C16_Witness ==
    /\ ~terminated
    /\ \E i \in seen \cap fired : IsTimeout(i) /\ i \notin DOMAIN wIdMap
    /\ \E i \in fired : IsInterval(i) /\ i \in DOMAIN wIdMap

\* the main side handles an 'invoke' message for id i, which has a Transaction
HandlesInvoke(i) ==
    /\ toMain # <<>>
    /\ Head(toMain) = [id |-> i, type |-> "invoke"]
    /\ i \in DOMAIN idMap
    /\ MainReceive

\* C17: handling 'invoke' for an id with a stored Transaction calls, within
\* that step, exactly one callback: the one passed to the setTimeout /
\* setInterval call that returned the id, with exactly the args passed to that
\* call. (A set call stores the func and args it was given under the id it
\* returns, a stored Transaction never changes, and the handling calls the
\* stored func with the stored args and nothing else; no other step calls a
\* callback.)
C17_InvokesOwnCallback ==
    [][/\ \A type \in SetTypes, func \in Funcs :
            (SetTimer(type, func) /\ ~threw') =>
                /\ returned' = Append(returned, <<seq, type>>)
                /\ idMap'[seq].func = func
                /\ idMap'[seq].args = ArgsOf(Main)
                /\ idMap'[seq].type = type
       /\ \A i \in DOMAIN idMap \cap DOMAIN idMap' : idMap'[i] = idMap[i]
       /\ \A i \in Ids :
            HandlesInvoke(i) =>
                /\ called' = <<[func |-> idMap[i].func, args |-> idMap[i].args]>>
                /\ ran' = {i}
       /\ called' # <<>> => \E i \in Ids : HandlesInvoke(i)]_vars

\* C17 witness: the callback of the second timer has just been called with
\* that timer's args while the first timer, with other args, is still stored
C17_Witness ==
    /\ ran = {1}
    /\ Len(called) = 1
    /\ called[1].args = <<1>>
    /\ 0 \in DOMAIN idMap
    /\ idMap[0].args # called[1].args

\* no stored callback has thrown
NoneThrew == \A i \in DOMAIN idMap : ~(idMap[i].func.op = "throw" /\ i \in invoked)

\* both directions of the channel are empty
Quiescent == toWorker = <<>> /\ toMain = <<>>

\* C18: on an instance that is not terminated and whose callbacks have not
\* thrown, whenever both directions of the channel are empty the ids with a
\* Transaction on the main side are exactly the ids with a native timer id in
\* the worker's registry.
C18_NoLeakWhenQuiescent ==
    (defaultWorkerTimer = WorkerTimer /\ ~terminated /\ NoneThrew /\ Quiescent)
        => DOMAIN idMap = DOMAIN wIdMap

\* the number of 'invoke' messages for id i the main side has not handled yet
Pending(i) == Cardinality(InFlight(i))

\* C19: the callback of timer i is invoked no more often than the native
\* timer of i has fired. Every invocation of i's callback handles, and so
\* uses up, one 'invoke' message for i, one callback per message; an 'invoke'
\* message for i comes into being only when the live native timer of i fires,
\* one message per firing; so every invocation has a firing of its own before
\* it, and no callback has run whose timer has not fired.
C19_NoSpuriousInvocation ==
    /\ [](invoked \subseteq fired)
    /\ [][/\ Len(called') <= 1
          /\ \A i \in Ids :
               /\ i \in ran' => /\ HandlesInvoke(i)
                                /\ Pending(i)' = Pending(i) - 1
                                /\ ran' = {i}
               /\ Pending(i)' > Pending(i) =>
                     /\ Pending(i)' = Pending(i) + 1
                     /\ Live(i)
                     /\ toMain' = Append(toMain, [id |-> i, type |-> "invoke"])
                     /\ i \in fired'
                     /\ ran' = {}]_vars

\* C19 witness: an interval has fired and run, more of its 'invoke' messages
\* are queued, and a one-shot timer that has fired has not run yet
C19_Witness ==
    /\ \E i \in invoked : IsInterval(i) /\ Pending(i) >= 1
    /\ \E i \in fired \ invoked : IsTimeout(i) /\ Pending(i) = 1

\* C20: once terminate has been called the default instance stays the same,
\* terminated, instance and no worker is constructed again; a later bare
\* setTimeout / setInterval still returns the counter's next id and stores a
\* Transaction under it, posts nothing, and neither its callback nor any other
\* is ever called.
C20_TerminatedSingletonStays ==
    /\ [](\A i \in late : /\ i \in ReturnedIds
                          /\ i \notin seen
                          /\ i \notin fired
                          /\ i \notin invoked
                          /\ i \in DOMAIN idMap \/ i \in cleared)
    /\ [][terminated =>
            /\ terminated'
            /\ defaultWorkerTimer = WorkerTimer
            /\ defaultWorkerTimer' = WorkerTimer
            /\ workers' = workers
            /\ boot' = <<>>
            /\ ran' = {} /\ called' = <<>>
            /\ toWorker' = <<>>
            /\ seq' >= seq
            /\ \A type \in SetTypes, func \in Funcs :
                  SetTimer(type, func) =>
                     /\ seq' = seq + 1
                     /\ returned' = Append(returned, <<seq, type>>)
                     /\ seq \in DOMAIN idMap'
                     /\ idMap'[seq].func = func
                     /\ late' = late \cup {seq}
                     /\ ~threw']_vars

\* C20 witness: the default instance is terminated and holds the Transaction
\* of a timer that a bare call set after terminate, with an id that continues
\* the ids given out before terminate
C20_Witness ==
    /\ terminated
    /\ defaultWorkerTimer = WorkerTimer
    /\ workers = 1
    /\ \E i \in late : i \in DOMAIN idMap /\ i > 0 /\ (i - 1) \in ReturnedIds \ late

====
